---- MODULE Spec2Model ----
(***************************************************************************)
(* The 4-bit DAC and ADC of 0_Documents/000_DACとADC交換.ipynb.            *)
(*                                                                         *)
(* dac_output maps a string of four bits and a reference voltage to the    *)
(* binary-weighted voltage; adc_output maps a voltage and a reference      *)
(* voltage to the string of the rounded quotient.  Both are pure           *)
(* functions, so each specification draws the arguments of one call in     *)
(* its initial states and has the call itself as its action.               *)
(*                                                                         *)
(* Voltages are Python floats.  A float is modelled as a binary floating-  *)
(* point number [m, e] of value m * 2^e whose mantissa m has exactly       *)
(* Precision bits (or is 0), and every arithmetic operation rounds its     *)
(* exact result to nearest, ties to even, as IEEE 754 does.  The exponent  *)
(* is not bounded: overflow, underflow, infinities and NaN are outside     *)
(* the voltages drawn here.  Python's float has 53 bits of mantissa; the   *)
(* model keeps the rounding and scales the width down.                     *)
(***************************************************************************)
EXTENDS Integers, Sequences, FiniteSets

\* Bits of mantissa of a float of the model.
Precision == 8

\* Longest string passed to dac_output.
MaxLen == 5

---------------------------------------------------------------------------
(* Floating-point arithmetic                                               *)

Abs(n) == IF n < 0 THEN -n ELSE n

Sign(n) == IF n < 0 THEN -1 ELSE IF n > 0 THEN 1 ELSE 0

RECURSIVE BitLen(_)
BitLen(a) == IF a = 0 THEN 0 ELSE 1 + BitLen(a \div 2)

Zero == [m |-> 0, e |-> 0]

\* The float nearest to n * 2^e, ties to the even mantissa.
RoundToFloat(n, e) ==
    IF n = 0 THEN Zero
    ELSE LET a  == Abs(n)
             sh == BitLen(a) - Precision
         IN IF sh <= 0
            THEN [m |-> Sign(n) * a * 2^(-sh), e |-> e + sh]
            ELSE LET q    == a \div 2^sh
                     r    == a % 2^sh
                     half == 2^(sh - 1)
                     up   == r > half \/ (r = half /\ q % 2 = 1)
                     q1   == IF up THEN q + 1 ELSE q
                 IN IF q1 = 2^Precision
                    THEN [m |-> Sign(n) * 2^(Precision - 1), e |-> e + sh + 1]
                    ELSE [m |-> Sign(n) * q1, e |-> e + sh]

\* The float nearest to (n / d) * 2^e, for integers n and d # 0: the quotient
\* is taken to Precision + 2 bits and the remainder kept as a sticky bit.
RoundQuotient(n, d, e) ==
    IF n = 0 THEN Zero
    ELSE LET k  == Precision + 2 + BitLen(Abs(d))
             q  == (Abs(n) * 2^k) \div Abs(d)
             r  == (Abs(n) * 2^k) % Abs(d)
             qs == 2 * q + (IF r = 0 THEN 0 ELSE 1)
         IN RoundToFloat(Sign(n) * Sign(d) * qs, e - k - 1)

\* int -> float, as in the mixed arithmetic int(bit) * weight.
FromInt(n) == RoundToFloat(n, 0)

\* A decimal literal n/d (5.0 is 50/10, 3.12 is 312/100).
FromDecimal(n, d) == RoundQuotient(n, d, 0)

FloatAdd(x, y) ==
    IF x.m = 0 THEN y
    ELSE IF y.m = 0 THEN x
    ELSE LET e0 == IF x.e < y.e THEN x.e ELSE y.e
         IN RoundToFloat(x.m * 2^(x.e - e0) + y.m * 2^(y.e - e0), e0)

FloatMul(x, y) == RoundToFloat(x.m * y.m, x.e + y.e)

FloatDiv(x, y) == RoundQuotient(x.m, y.m, x.e - y.e)

\* x > y on floats: exact.
FloatGt(x, y) ==
    LET e0 == IF x.e < y.e THEN x.e ELSE y.e
    IN x.m * 2^(x.e - e0) > y.m * 2^(y.e - e0)

---------------------------------------------------------------------------
(* Python built-ins used by the two functions                              *)

\* A str is the sequence of its characters.
Chars == {"0", "1", "2", "a"}

\* What a call gives back: a value, or the exception it raised.
Return(v) == [exc |-> "none", val |-> v]

Raise(kind, msg) == [exc |-> kind, msg |-> msg]

NotCalled == [exc |-> "pending"]

\* set(s)
PySet(s) == {s[i] : i \in 1..Len(s)}

\* int(c) of a one-character string: a decimal digit, else ValueError.
PyIntDefined(c) == c \in {"0", "1", "2"}

PyInt(c) == IF c = "0" THEN 0 ELSE IF c = "1" THEN 1 ELSE 2

\* zip(s, weights): pairs up to the shorter of the two.
ZipLen(s, w) == IF Len(s) < Len(w) THEN Len(s) ELSE Len(w)

\* int(x) in the place of round(x): the fraction is dropped.
PyTruncate(x) ==
    IF x.e >= 0 THEN x.m * 2^(x.e)
    ELSE Sign(x.m) * (Abs(x.m) \div 2^(-(x.e)))

\* Rounding with ties away from zero in the place of ties to even.
PyRoundHalfUp(x) ==
    IF x.e >= 0 THEN x.m * 2^(x.e)
    ELSE LET a == Abs(x.m)
             d == 2^(-(x.e))
         IN Sign(x.m) * ((2 * a + d) \div (2 * d))

\* round(x) of a float: the nearest int, ties to even.
PyRound(x) ==
    IF x.e >= 0 THEN x.m * 2^(x.e)
    ELSE LET a    == Abs(x.m)
             d    == 2^(-(x.e))
             q    == a \div d
             r    == a % d
             up   == 2 * r > d \/ (2 * r = d /\ q % 2 = 1)
         IN Sign(x.m) * (IF up THEN q + 1 ELSE q)

RECURSIVE BinDigits(_)
BinDigits(n) ==
    IF n < 2 THEN <<(IF n = 0 THEN "0" ELSE "1")>>
    ELSE Append(BinDigits(n \div 2), (IF n % 2 = 0 THEN "0" ELSE "1"))

RECURSIVE Zeros(_)
Zeros(n) == IF n <= 0 THEN <<>> ELSE <<"0">> \o Zeros(n - 1)

\* The value clamped to 0..15 before it is formatted.
PyFormat04bClamped(n) ==
    LET c      == IF n < 0 THEN 0 ELSE IF n > 15 THEN 15 ELSE n
        digits == BinDigits(c)
    IN Zeros(4 - Len(digits)) \o digits

\* The value reduced to its low four bits before it is formatted.
PyFormat04bWrapped(n) ==
    LET digits == BinDigits(n % 16)
    IN Zeros(4 - Len(digits)) \o digits

\* format(n, '04b'): sign, then zeros up to a width of 4, then the digits.
PyFormat04b(n) ==
    LET digits == BinDigits(Abs(n))
        sign   == IF n < 0 THEN <<"-">> ELSE <<>>
    IN sign \o Zeros(4 - Len(sign) - Len(digits)) \o digits

---------------------------------------------------------------------------
(* The two functions                                                       *)

\* The weights with the least significant bit first.
weights_reversed ==
    << FloatDiv(FromInt(1), FromInt(16)), FloatDiv(FromInt(2), FromInt(16)),
       FloatDiv(FromInt(4), FromInt(16)), FloatDiv(FromInt(8), FromInt(16)) >>

\* weights = [8/16, 4/16, 2/16, 1/16]
weights == << FloatDiv(FromInt(8), FromInt(16)), FloatDiv(FromInt(4), FromInt(16)),
              FloatDiv(FromInt(2), FromInt(16)), FloatDiv(FromInt(1), FromInt(16)) >>

\* int(bit) * weight * V_ref
Term(bit, weight, V) == FloatMul(FloatMul(FromInt(PyInt(bit)), weight), V)

\* sum(...) over the first n pairs of zip(binary_input, weights), left to right
\* from the int 0, each addition rounded (the notebook's kernel is Python 3.8,
\* whose sum() does not compensate for rounding).
RECURSIVE SumTerms(_, _, _)
SumTerms(b, V, n) ==
    IF n = 0 THEN Zero
    ELSE FloatAdd(SumTerms(b, V, n - 1), Term(b[n], weights[n], V))

\* dac_output checking the length of its argument alone.
dac_output_length_only(b, V) ==
    IF Len(b) # 4
    THEN Raise("ValueError", "binary_input must be a 4-bit binary string.")
    ELSE IF \E i \in 1..ZipLen(b, weights) : ~PyIntDefined(b[i])
    THEN Raise("ValueError", "invalid literal for int() with base 10")
    ELSE Return(SumTerms(b, V, ZipLen(b, weights)))

dac_output(b, V) ==
    IF Len(b) # 4 \/ ~(PySet(b) \subseteq {"0", "1"})
    THEN Raise("ValueError", "binary_input must be a 4-bit binary string.")
    ELSE IF \E i \in 1..ZipLen(b, weights) : ~PyIntDefined(b[i])
    THEN Raise("ValueError", "invalid literal for int() with base 10")
    ELSE Return(SumTerms(b, V, ZipLen(b, weights)))

quantization_levels == 2^4

\* The step taken over 2^4 - 1 intervals.
delta_V_one_less(V) == FloatDiv(V, FromInt(quantization_levels - 1))

delta_V(V) == FloatDiv(V, FromInt(quantization_levels))

digital_value(Vin, V) == PyRound(FloatDiv(Vin, delta_V(V)))

\* adc_output rejecting the reference voltage itself.
adc_output_rejects_equal(Vin, V) ==
    IF ~FloatGt(V, Vin)
    THEN Raise("ValueError", "Input voltage exceeds reference voltage.")
    ELSE Return(PyFormat04b(digital_value(Vin, V)))

adc_output(Vin, V) ==
    IF FloatGt(Vin, V)
    THEN Raise("ValueError", "Input voltage exceeds reference voltage.")
    ELSE Return(PyFormat04b(digital_value(Vin, V)))

---------------------------------------------------------------------------
(* Arguments                                                               *)

\* The floats v with 2^j <= v < 2^(j+1).
Binade(j) == {[m |-> n, e |-> j - (Precision - 1)] : n \in 2^(Precision - 1)..(2^Precision - 1)}

Neg(x) == [m |-> -(x.m), e |-> x.e]

\* V_ref = 5.0 of the two example cells.
ExampleRef == FromDecimal(50, 10)

\* Reference voltages: every float of [4, 8).  Both functions commute with a
\* scaling of all voltages by a power of two, so one binade stands for all.
RefVoltages == Binade(2)

\* Input voltages: 0, every float of [1/8, 8) and every float of (-1/2, -1/8].
InVoltages ==
    {Zero} \cup UNION {Binade(j) : j \in (-3)..2}
           \cup {Neg(x) : x \in UNION {Binade(j) : j \in (-3)..(-2)}}

\* Every string of at most MaxLen characters.
Strings == UNION {[1..n -> Chars] : n \in 0..MaxLen}

\* The 16 codes of four bits.
BinaryCodes == [1..4 -> {"0", "1"}]

---------------------------------------------------------------------------
(* One call of each function, the round trip, and a sweep of the ADC       *)

VARIABLES
    pc,             \* where the caller is
    binary_input,   \* argument of dac_output
    V_ref,          \* reference voltage of the call
    V_in,           \* argument of adc_output
    V_out,          \* what dac_output gave back
    binary_output,  \* what adc_output gave back
    highest         \* sweep: the largest digital value of the samples before V_in

vars == <<pc, binary_input, V_ref, V_in, V_out, binary_output, highest>>

\* The integer a formatted string stands for (its sign and binary digits).
RECURSIVE BinValue(_)
BinValue(s) ==
    IF Len(s) = 0 THEN 0
    ELSE 2 * BinValue(SubSeq(s, 1, Len(s) - 1)) + (IF s[Len(s)] = "1" THEN 1 ELSE 0)

Decode(s) == IF Len(s) > 0 /\ s[1] = "-" THEN -BinValue(Tail(s)) ELSE BinValue(s)

InitDac ==
    /\ pc = "dac_call"
    /\ \/ binary_input \in Strings /\ V_ref = ExampleRef
       \/ binary_input \in [1..4 -> Chars] /\ V_ref \in RefVoltages
    /\ V_in = Zero
    /\ V_out = NotCalled
    /\ binary_output = NotCalled
    /\ highest = 0

\* output_voltage = dac_output(b_input, V_ref)
DacCall ==
    /\ pc = "dac_call"
    /\ V_out' = dac_output(binary_input, V_ref)
    /\ pc' = "dac_done"
    /\ UNCHANGED <<binary_input, V_ref, V_in, binary_output, highest>>

InitAdc ==
    /\ pc = "adc_call"
    /\ binary_input = <<>>
    /\ V_ref \in RefVoltages
    /\ V_in \in InVoltages
    /\ V_out = NotCalled
    /\ binary_output = NotCalled
    /\ highest = 0

\* binary_output = adc_output(v, V_ref)
AdcCall ==
    /\ pc = "adc_call"
    /\ binary_output' = adc_output(V_in, V_ref)
    /\ pc' = "adc_done"
    /\ UNCHANGED <<binary_input, V_ref, V_in, V_out, highest>>

InitTrip ==
    /\ pc = "trip_dac"
    /\ binary_input \in BinaryCodes
    /\ V_ref \in RefVoltages
    /\ V_in = Zero
    /\ V_out = NotCalled
    /\ binary_output = NotCalled
    /\ highest = 0

\* adc_output(dac_output(b, V), V): the inner call
TripDac ==
    /\ pc = "trip_dac"
    /\ V_out' = dac_output(binary_input, V_ref)
    /\ pc' = "trip_adc"
    /\ UNCHANGED <<binary_input, V_ref, V_in, binary_output, highest>>

\* the outer call, which an exception of the inner one skips
TripAdc ==
    /\ pc = "trip_adc"
    /\ IF V_out.exc = "none"
       THEN /\ V_in' = V_out.val
            /\ binary_output' = adc_output(V_out.val, V_ref)
       ELSE /\ V_in' = V_in
            /\ binary_output' = V_out
    /\ pc' = "trip_done"
    /\ UNCHANGED <<binary_input, V_ref, V_out, highest>>

\* The next float above a sample of the sweep.
NextUp(x) ==
    IF x.m = 0 THEN [m |-> 2^(Precision - 1), e |-> (-3) - (Precision - 1)]
    ELSE IF x.m = 2^Precision - 1 THEN [m |-> 2^(Precision - 1), e |-> x.e + 1]
    ELSE [m |-> x.m + 1, e |-> x.e]

InitSweep ==
    /\ pc = "sweep_first"
    /\ binary_input = <<>>
    /\ V_ref \in RefVoltages
    /\ V_in = Zero
    /\ V_out = NotCalled
    /\ binary_output = NotCalled
    /\ highest = 0

\* for v in V_in: binary_output = adc_output(v, V_ref), over the samples
\* 0 < 1/8 < ... <= V_ref in rising order: the first sample
SweepFirst ==
    /\ pc = "sweep_first"
    /\ binary_output' = adc_output(V_in, V_ref)
    /\ highest' = Decode(binary_output'.val)
    /\ pc' = "sweep"
    /\ UNCHANGED <<binary_input, V_ref, V_in, V_out>>

\* the next sample
SweepNext ==
    /\ pc = "sweep"
    /\ ~FloatGt(NextUp(V_in), V_ref)
    /\ V_in' = NextUp(V_in)
    /\ binary_output' = adc_output(V_in', V_ref)
    /\ highest' = IF Decode(binary_output.val) > highest
                  THEN Decode(binary_output.val) ELSE highest
    /\ UNCHANGED <<pc, binary_input, V_ref, V_out>>

NextDac == DacCall

NextAdc == AdcCall

NextTrip == TripDac \/ TripAdc

NextSweep == SweepFirst \/ SweepNext

SpecDac == InitDac /\ [][NextDac]_vars

SpecAdc == InitAdc /\ [][NextAdc]_vars

SpecTrip == InitTrip /\ [][NextTrip]_vars

SpecSweep == InitSweep /\ [][NextSweep]_vars

Init == InitDac \/ InitAdc \/ InitTrip \/ InitSweep

Next == DacCall \/ AdcCall \/ TripDac \/ TripAdc \/ SweepFirst \/ SweepNext

Spec == Init /\ [][Next]_vars

---------------------------------------------------------------------------
(* Properties                                                              *)

\* A 4-character code over {0, 1}.
WellFormed(s) == Len(s) = 4 /\ \A i \in 1..4 : s[i] \in {"0", "1"}

\* 8*b3 + 4*b2 + 2*b1 + b0, b3 the first character.
CodeValue(b) ==
    8 * (IF b[1] = "1" THEN 1 ELSE 0) + 4 * (IF b[2] = "1" THEN 1 ELSE 0)
      + 2 * (IF b[3] = "1" THEN 1 ELSE 0) + (IF b[4] = "1" THEN 1 ELSE 0)

\* The code of four bits of an integer of 0..15.
CodeOf(k) ==
    << (IF (k \div 8) % 2 = 1 THEN "1" ELSE "0"), (IF (k \div 4) % 2 = 1 THEN "1" ELSE "0"),
       (IF (k \div 2) % 2 = 1 THEN "1" ELSE "0"), (IF k % 2 = 1 THEN "1" ELSE "0") >>

\* Real numbers m * 2^e are compared in units of 2^Unit, an exponent below
\* every exponent compared.
Unit == (-2) - Precision

In(x) == x.m * 2^(x.e - Unit)

\* The integer n is a nearest integer to the float q, the even one on a tie.
NearestEven(n, q) ==
    IF q.e >= 0 THEN n = q.m * 2^(q.e)
    ELSE LET d == 2^(-(q.e))
             t == 2 * Abs(n * d - q.m)
         IN t <= d /\ (t = d => n % 2 = 0)

\* The float quotient adc_output rounds.
Quotient == FloatDiv(V_in, FloatDiv(V_ref, FromInt(16)))

C3_AdcBoundaries ==
    pc = "adc_done" =>
        /\ V_in = V_ref => binary_output = Return(<<"1", "1", "1", "1">>)
        /\ V_in = Zero => binary_output = Return(<<"0", "0", "0", "0">>)

\* C4 as stated: for 0 <= V_in <= V_ref the string adc_output returns has
\* exactly 4 characters, each 0 or 1.
C4_AdcWellFormed ==
    (pc = "adc_done" /\ 0 <= In(V_in) /\ In(V_in) <= In(V_ref)) =>
        /\ binary_output.exc = "none"
        /\ WellFormed(binary_output.val)

\* C5: dac_output raises ValueError, from its check of the argument, if and only
\* if the code's length is not 4 or it holds a character other than 0 or 1;
\* every other code returns a voltage.
C5_DacRejects ==
    pc = "dac_done" =>
        IF WellFormed(binary_input)
        THEN V_out.exc = "none"
        ELSE V_out = Raise("ValueError", "binary_input must be a 4-bit binary string.")

\* C5's case: "10a1" is rejected.
C5_Witness ==
    /\ pc = "dac_done"
    /\ binary_input = <<"1", "0", "a", "1">>
    /\ V_out.exc = "ValueError"

\* C6: adc_output raises ValueError exactly when V_in > V_ref; V_in = V_ref and
\* everything below it raise nothing.
C6_AdcRejects ==
    pc = "adc_done" =>
        /\ binary_output.exc \in {"none", "ValueError"}
        /\ binary_output.exc = "ValueError" <=> In(V_in) > In(V_ref)

\* C6's case: an input above the reference voltage is rejected.
C6_Witness ==
    /\ pc = "adc_done"
    /\ In(V_in) > In(V_ref)
    /\ binary_output.exc = "ValueError"

DacLevel == [V \in RefVoltages |-> [k \in 0..15 |-> In(dac_output(CodeOf(k), V).val)]]

\* 32 times the distance between V_in and the DAC output of the code of k.
Distance32(k) == 32 * Abs(In(V_in) - DacLevel[V_ref][k])

\* The four inputs of the example cell, V_ref = 5.0, give the four codes back.
ExamplesMapBack ==
    V_ref = ExampleRef =>
        /\ V_in = FromDecimal(312, 100) => binary_output = Return(<<"1", "0", "1", "0">>)
        /\ V_in = FromDecimal(156, 100) => binary_output = Return(<<"0", "1", "0", "1">>)
        /\ V_in = FromDecimal(469, 100) => binary_output = Return(<<"1", "1", "1", "1">>)
        /\ V_in = FromDecimal(0, 100) => binary_output = Return(<<"0", "0", "0", "0">>)

C10_AdcMonotone ==
    pc = "sweep" =>
        /\ binary_output.exc = "none"
        /\ Decode(binary_output.val) >= highest

\* C10's case: the sweep has passed every code and reaches the top of the
\* range, where the integer goes from 15 to 16.
C10_Witness ==
    /\ pc = "sweep"
    /\ In(V_in) > 0
    /\ highest = 15
    /\ Decode(binary_output.val) = 16

====
